---- MODULE Spec2Model ----
(***************************************************************************)
(* A model of the lattice generation pipeline: the plugin registry, the    *)
(* dependency graph resolver, the phase scheduler, the generator context   *)
(* and Renderer.render (packages/engine/src).                              *)
(*                                                                         *)
(* JavaScript strings that the code compares (plugin ids, file paths) are  *)
(* sequences of one-character strings.  A Buffer is a sequence of bytes:   *)
(* an ASCII byte is written as its character, "CR" and "LF" stand for 0x0D *)
(* and 0x0A, "FF", "EF", "BF" and "BD" for the bytes of those values.      *)
(***************************************************************************)
EXTENDS Integers, Sequences, FiniteSets

VARIABLES
    registry,      \* InMemoryPluginRegistry.plugins: the registered plugins, in insertion order
    config,        \* the ProjectConfig the caller passes to render: <<key, value>> pairs in insertion order
    policy,        \* the Policy the caller passes to render
    hasExisting,   \* whether the caller passes an existingFiles argument
    heap,          \* the two FileMap objects: heap.existing (the caller's), heap.ctx (context.files)
    ctxRef,        \* the object context.files refers to during a render
    pc,            \* "idle" (no render running), "applying" (inside render's phase loops),
                   \* "caller" / "resolved" (before / after a direct resolvePluginOrder call),
                   \* "detected" (after a direct detectCycles call),
                   \* "grouped" (after a direct groupPluginsByPhase call),
                   \* "hashing" (a caller collecting the config hashes of manifests),
                   \* "registering" (a caller filling a registry),
                   \* "context" (a caller using a context it constructed),
                   \* "policy" / "policyResolved" (before / after a resolvePolicy call),
                   \* "cli" (the CLI apply command)
    schedule,      \* the plugins the phase loops of the running render will apply, in order
    pos,           \* index in schedule of the next plugin to apply
    fileWriters,   \* render's fileWriters map: [path, writers] entries in insertion order
    applied,       \* ids of the plugins whose apply the running/last render has called, in call order
    addLog,        \* the addFile calls of the running/last render: [plugin, path, content]
    history,       \* the outcome of every finished render call, in call order
    oIn,           \* the plugin objects a direct caller of resolvePluginOrder holds, then the list it passed
                   \* (for the other direct calls: the arguments passed so far)
    cli,           \* the CLI apply command: the files on disk, the manifest it read, the index
                   \* of the manifest entry its loop is at, conflicts, added, and how it ended
    oOut           \* what resolvePluginOrder returned or threw (for the other direct calls: their outcome)

vars == <<registry, config, policy, hasExisting, heap, ctxRef, pc, schedule, pos,
          fileWriters, applied, addLog, history, oIn, cli, oOut>>

\* the variables of the engine, which the CLI apply command leaves alone
engineVars == <<registry, config, policy, hasExisting, heap, ctxRef, pc, schedule, pos,
                fileWriters, applied, addLog, history, oIn, oOut>>

(***************************************************************************)
(* Bounds                                                                  *)
(***************************************************************************)
\* number of render calls made on one Renderer
MaxRenders == 2
\* number of configs whose hashes are compared
MaxHashes == 2
\* number of register calls made on one registry
MaxRegisters == 3
\* number of addFile calls made on one context
MaxAdds == 3
\* total number of declared dependencies over all plugins of a registry
MaxEdges == 2
MaxEntries == 3

\* ids of the plugins that can be registered
PluginIds == {<<"a">>, <<"b">>, <<"Z">>}
\* an id that is declared as a dependency but never registered
MissingId == <<"m">>
DepIds == PluginIds \cup {MissingId}
\* the file paths that occur
Paths == {<<"Z">>, <<"a">>, <<"a", "Z">>}

(***************************************************************************)
(* Sequences as ordered sets and lists                                     *)
(***************************************************************************)
Range(s) == {s[i] : i \in DOMAIN s}

IndexOf(s, x) == IF x \in Range(s) THEN CHOOSE i \in DOMAIN s : s[i] = x /\ \A j \in 1..(i-1) : s[j] # x
                 ELSE 0

\* Set.add on an insertion-ordered Set
SetAdd(s, x) == IF x \in Range(s) THEN s ELSE Append(s, x)

RECURSIVE SetFrom(_)
\* new Set(list): the elements in first-occurrence order
SetFrom(list) == IF list = <<>> THEN <<>>
                 ELSE SetAdd(SetFrom(SubSeq(list, 1, Len(list) - 1)), list[Len(list)])

RECURSIVE Flatten(_)
Flatten(ss) == IF ss = <<>> THEN <<>> ELSE Head(ss) \o Flatten(Tail(ss))

\* the array left as it is
Unsorted(s, cmp) == s
\* Array.prototype.sort with a comparator (stable): element i goes after every
\* element that compares smaller and every equal element that came before it;
\* cmp[x, y] is the comparator's result on two elements of s
StableSort(s, cmp) ==
    LET n == Len(s)
        place(i) == 1 + Cardinality({j \in 1..n : \/ cmp[s[j], s[i]] < 0
                                                  \/ cmp[s[j], s[i]] = 0 /\ j < i})
    IN [k \in 1..n |-> s[CHOOSE i \in 1..n : place(i) = k]]

(***************************************************************************)
(* String comparison                                                       *)
(***************************************************************************)
\* UTF-16 code unit of a character
CodeUnit(c) == CASE c = "Z" -> 90 [] c = "a" -> 97 [] c = "b" -> 98 [] c = "m" -> 109

\* position of a character in the collation String.prototype.localeCompare uses
\* (ICU root collation: letters in alphabetical order, whatever their case)
CollationRank(c) == CASE c = "a" -> 1 [] c = "b" -> 2 [] c = "m" -> 3 [] c = "Z" -> 4

RECURSIVE CompareBy(_, _, _)
\* lexicographic comparison of two strings by a per-character key: -1, 0 or 1
CompareBy(key, s, t) ==
    IF s = <<>> /\ t = <<>> THEN 0
    ELSE IF s = <<>> THEN -1
    ELSE IF t = <<>> THEN 1
    ELSE IF key[Head(s)] < key[Head(t)] THEN -1
    ELSE IF key[Head(s)] > key[Head(t)] THEN 1
    ELSE CompareBy(key, Tail(s), Tail(t))

Alphabet == {"Z", "a", "b", "m"}

\* the comparison of Array.prototype.sort() without a comparator: by code units
codeUnitCompare(s, t) == CompareBy([c \in Alphabet |-> CodeUnit(c)], s, t)

\* s.localeCompare(t)
localeCompare(s, t) == CompareBy([c \in Alphabet |-> CollationRank(c)], s, t)

\* the comparator (a, b) => a.id.localeCompare(b.id) on the plugins of a list
CompareByIdCodeUnit(plugins) ==
    [p \in Range(plugins), q \in Range(plugins) |-> codeUnitCompare(p.id, q.id)]
CompareById(plugins) ==
    [p \in Range(plugins), q \in Range(plugins) |-> localeCompare(p.id, q.id)]

\* a list of strings is in ascending lexicographic (code unit) order
IsAscending(list) == \A i, j \in DOMAIN list : i < j => codeUnitCompare(list[i], list[j]) < 0

(***************************************************************************)
(* FileMap: a JavaScript object from path to Buffer; its entries are kept  *)
(* in insertion order, as Object.keys and Object.entries report them       *)
(***************************************************************************)
Keys(files) == [i \in DOMAIN files |-> files[i].path]

\* the object has an own property of that name
HasKey(files, path) == \E i \in DOMAIN files : files[i].path = path

\* a property name every object created by {} inherits from Object.prototype
\* (toString, valueOf, hasOwnProperty, ... are others)
InheritedKey == <<"c", "o", "n", "s", "t", "r", "u", "c", "t", "o", "r">>
\* __proto__: the accessor property of Object.prototype that reads and
\* replaces an object's prototype
ProtoKey == <<"_", "_", "p", "r", "o", "t", "o", "_", "_">>
ObjectPrototypeKeys == {InheritedKey, ProtoKey}

\* path in files: an own or an inherited property
HasProperty(files, path) == HasKey(files, path) \/ path \in ObjectPrototypeKeys

\* files[path]: the own property, else the inherited one (the prototype
\* object for __proto__, a function of Object.prototype for the others),
\* else "undefined"
Lookup(files, path) ==
    IF HasKey(files, path) THEN files[CHOOSE i \in DOMAIN files : files[i].path = path].content
    ELSE IF path = ProtoKey THEN "[Prototype]"
    ELSE IF path \in ObjectPrototypeKeys THEN "[Function]"
    ELSE "undefined"

\* files[path] = content: an existing property keeps its place, a new one
\* goes last; assigning a Buffer to __proto__ runs the setter of
\* Object.prototype, which replaces the prototype and adds no own property
SetKey(files, path, content) ==
    IF path = ProtoKey THEN files
    ELSE IF HasKey(files, path)
    THEN [i \in DOMAIN files |-> IF files[i].path = path THEN [path |-> path, content |-> content]
                                 ELSE files[i]]
    ELSE Append(files, [path |-> path, content |-> content])

\* delete files[path]
DeleteKey(files, path) == SelectSeq(files, LAMBDA e : e.path # path)

RECURSIVE ObjectAssign(_, _)
\* Object.assign(target, source)
ObjectAssign(target, source) ==
    IF source = <<>> THEN target
    ELSE ObjectAssign(SetKey(target, Head(source).path, Head(source).content), Tail(source))

(***************************************************************************)
(* InMemoryGeneratorContext                                                *)
(***************************************************************************)
\* the object the constructor makes context.files refer to: the fresh {} of
\* the field initializer
ContextFilesAliased == "existing"
ContextFilesObject == "ctx"

\* new InMemoryGeneratorContext(config, policy, existingFiles): the heap after it
NewContext(h, existingGiven) ==
    LET fresh == [h EXCEPT !.ctx = <<>>]
        ref == ContextFilesObject
    IN IF existingGiven THEN [fresh EXCEPT ![ref] = ObjectAssign(fresh[ref], fresh.existing)]
       ELSE fresh

addFile(files, path, content) == SetKey(files, path, content)

hasFile(files, path) == HasProperty(files, path)

getFile(files, path) == Lookup(files, path)

(***************************************************************************)
(* Content normalization and hashing                                       *)
(***************************************************************************)
RECURSIVE Utf8Decode(_)
\* content.toString('utf-8'): the characters the bytes decode to.  An ASCII
\* byte is its character, EF BF BD is U+FFFD, and a byte that belongs to no
\* well-formed sequence (0xFF never does) decodes to U+FFFD as well.  The
\* bytes EF, BF and BD occur in the contents explored only as that triple.
Utf8Decode(bytes) ==
    IF bytes = <<>> THEN <<>>
    ELSE IF Len(bytes) >= 3 /\ SubSeq(bytes, 1, 3) = <<"EF", "BF", "BD">>
         THEN <<"U+FFFD">> \o Utf8Decode(SubSeq(bytes, 4, Len(bytes)))
    ELSE IF Head(bytes) \in {"FF", "EF", "BF", "BD"}
         THEN <<"U+FFFD">> \o Utf8Decode(Tail(bytes))
    ELSE <<Head(bytes)>> \o Utf8Decode(Tail(bytes))

RECURSIVE Utf8Encode(_)
\* Buffer.from(text, 'utf-8')
Utf8Encode(text) ==
    IF text = <<>> THEN <<>>
    ELSE IF Head(text) = "U+FFFD" THEN <<"EF", "BF", "BD">> \o Utf8Encode(Tail(text))
    ELSE <<Head(text)>> \o Utf8Encode(Tail(text))

RECURSIVE ReplaceCRLF(_)
\* text.replace(/\r\n/g, '\n')
ReplaceCRLF(text) ==
    IF text = <<>> THEN <<>>
    ELSE IF Len(text) >= 2 /\ text[1] = "CR" /\ text[2] = "LF"
         THEN <<"LF">> \o ReplaceCRLF(SubSeq(text, 3, Len(text)))
    ELSE <<Head(text)>> \o ReplaceCRLF(Tail(text))

\* text.replace(/\r/g, '\n')
ReplaceCR(text) == [i \in DOMAIN text |-> IF text[i] = "CR" THEN "LF" ELSE text[i]]

normalizeLineEndings(content) == Utf8Encode(ReplaceCR(ReplaceCRLF(Utf8Decode(content))))

\* createHash('sha256').update(content).digest('hex'): the digest stands for
\* the bytes it was computed from (taken as injective)
computeSha256(content) == [sha256 |-> content]

\* the names of ProjectConfig's fields in code unit order
ConfigKeyOrder == <<"analyticsProvider", "backend", "billingProvider", "observability",
                    "packageManager", "projectType", "strictnessPreset", "testingLevel">>

\* Object.keys(config), unsorted
InsertionOrderKeys(cfg) == [i \in DOMAIN cfg |-> cfg[i][1]]
\* Object.keys(config).sort()
SortedConfigKeys(cfg) == SelectSeq(ConfigKeyOrder, LAMBDA k : \E i \in DOMAIN cfg : cfg[i][1] = k)

ConfigValue(cfg, k) == cfg[CHOOSE i \in DOMAIN cfg : cfg[i][1] = k][2]

\* JSON.stringify(config, keys): the listed properties, in the order of the list
JSONStringify(cfg, keys) == [i \in DOMAIN keys |-> <<keys[i], ConfigValue(cfg, keys[i])>>]

\* the digest stands for the serialized text (taken as injective)
computeConfigHash(cfg) == [sha256 |-> JSONStringify(cfg, SortedConfigKeys(cfg))]

\* sortFileMap(files): the entries sorted by path with localeCompare
sortFileMap(files) ==
    StableSort(files, [e \in Range(files), f \in Range(files) |-> localeCompare(e.path, f.path)])

(***************************************************************************)
(* Policy: objects are functions from property names to values; an array   *)
(* is a sequence                                                           *)
(***************************************************************************)
BASE_POLICY ==
    [version |-> "1.0.0",
     requiredChecks |-> <<>>,
     versionPosture |-> "latest-major",
     runtimeSafety |-> [boundaryValidationRequired |-> FALSE],
     process |-> [codeownersRequired |-> FALSE, auditTrailRequired |-> FALSE]]

PRESET_POLICIES ==
    [startup |-> [requiredChecks |-> <<"lint", "typecheck">>,
                  versionPosture |-> "latest-major",
                  runtimeSafety |-> [boundaryValidationRequired |-> FALSE]],
     pro |-> [requiredChecks |-> <<"lint", "typecheck", "test", "build">>,
              versionPosture |-> "pinned-minor",
              runtimeSafety |-> [boundaryValidationRequired |-> TRUE]],
     enterprise |-> [requiredChecks |-> <<"lint", "typecheck", "test", "build", "e2e", "security", "audit">>,
                     versionPosture |-> "pinned-exact",
                     runtimeSafety |-> [boundaryValidationRequired |-> TRUE],
                     process |-> [codeownersRequired |-> TRUE, auditTrailRequired |-> TRUE]]]

\* { ...a, ...b }: the properties of both, those of b winning
Spread(a, b) == [k \in DOMAIN a \cup DOMAIN b |-> IF k \in DOMAIN b THEN b[k] ELSE a[k]]

\* the group taken from the preset as a whole
ReplaceGroup(base, preset, group) == IF group \in DOMAIN preset THEN preset[group] ELSE <<>>
\* { ...BASE_POLICY.group, ...(preset?.group || {}) }
MergeGroup(base, preset, group) ==
    Spread(base[group], IF group \in DOMAIN preset THEN preset[group] ELSE <<>>)

\* the spreads in the other order: the base wins
resolvePolicyBaseWins(cfg) ==
    LET preset == PRESET_POLICIES[ConfigValue(cfg, "strictnessPreset")]
    IN Spread(Spread(preset, BASE_POLICY),
              [runtimeSafety |-> MergeGroup(BASE_POLICY, preset, "runtimeSafety"),
               process |-> MergeGroup(BASE_POLICY, preset, "process")])
resolvePolicy(cfg) ==
    LET preset == PRESET_POLICIES[ConfigValue(cfg, "strictnessPreset")]
    IN Spread(Spread(BASE_POLICY, preset),
              [runtimeSafety |-> MergeGroup(BASE_POLICY, preset, "runtimeSafety"),
               process |-> MergeGroup(BASE_POLICY, preset, "process")])

(***************************************************************************)
(* Plugins and the registry                                                *)
(*                                                                         *)
(* A plugin is a record: id, dependencies (a list of ids, <<>> when the    *)
(* field is absent), phase and conflictPolicy ("none" when absent),        *)
(* appliesTo (the project types for which appliesTo(config) is true) and   *)
(* behaviour (what apply does to the context).                             *)
(***************************************************************************)
Ids(plugins) == [i \in DOMAIN plugins |-> plugins[i].id]

\* InMemoryPluginRegistry.get(id): the plugin, or "undefined"
RegistryGet(reg, id) ==
    IF \E i \in DOMAIN reg : reg[i].id = id
    THEN reg[CHOOSE i \in DOMAIN reg : reg[i].id = id]
    ELSE "undefined"

RegistryHas(reg, id) == \E i \in DOMAIN reg : reg[i].id = id

\* InMemoryPluginRegistry.getAll()
RegistryGetAll(reg) == reg

\* this.plugins.set(plugin.id, plugin) without the check: a present key keeps
\* its place and takes the new plugin
RegistryRegisterOverwrite(reg, plugin) ==
    IF RegistryHas(reg, plugin.id)
    THEN [i \in DOMAIN reg |-> IF reg[i].id = plugin.id THEN plugin ELSE reg[i]]
    ELSE Append(reg, plugin)
\* InMemoryPluginRegistry.register(plugin): the plugins map after the call
\* (unchanged when the call throws)
RegistryRegister(reg, plugin) == IF RegistryHas(reg, plugin.id) THEN reg ELSE Append(reg, plugin)

\* plugin.appliesTo(config)
AppliesTo(plugin, cfg) == ConfigValue(cfg, "projectType") \in plugin.appliesTo

(***************************************************************************)
(* buildDependencyGraph: nodes is an insertion-ordered Set of ids, edges a *)
(* Map from a plugin id to the insertion-ordered Set of its dependencies   *)
(***************************************************************************)
RECURSIVE buildDependencyGraph(_)
buildDependencyGraph(plugins) ==
    IF plugins = <<>> THEN [nodes |-> <<>>, edges |-> <<>>]
    ELSE LET n == Len(plugins)
             g == buildDependencyGraph(SubSeq(plugins, 1, n - 1))
             plugin == plugins[n]
             withId == SetAdd(g.nodes, plugin.id)
         IN IF Len(plugin.dependencies) > 0
            THEN [nodes |-> SetFrom(withId \o plugin.dependencies),
                  edges |-> [id \in DOMAIN g.edges \cup {plugin.id} |->
                                IF id = plugin.id THEN SetFrom(plugin.dependencies)
                                ELSE g.edges[id]]]
            ELSE [nodes |-> withId, edges |-> g.edges]

\* graph.edges.get(node), <<>> when the map has no entry
EdgesOf(graph, node) == IF node \in DOMAIN graph.edges THEN graph.edges[node] ELSE <<>>

(***************************************************************************)
(* detectCycles: st holds errors (one cycle per error, the ids joined by   *)
(* ' -> ' in the message), visited and recursionStack                      *)
(***************************************************************************)
RECURSIVE CycleVisit(_, _, _, _)
RECURSIVE CycleVisitAll(_, _, _, _)
\* the inner function visit(node, path)
CycleVisit(graph, node, path, st) ==
    IF node \in st.recursionStack
    THEN [st EXCEPT !.errors = Append(@, SubSeq(path, IndexOf(path, node), Len(path)) \o <<node>>)]
    ELSE IF node \in st.visited THEN st
    ELSE LET entered == [st EXCEPT !.visited = @ \cup {node}, !.recursionStack = @ \cup {node}]
             after == CycleVisitAll(graph, EdgesOf(graph, node), path \o <<node>>, entered)
         IN [after EXCEPT !.recursionStack = @ \ {node}]

\* for (const dep of deps) visit(dep, [...path, node])
CycleVisitAll(graph, deps, path, st) ==
    IF deps = <<>> THEN st
    ELSE CycleVisitAll(graph, Tail(deps), path, CycleVisit(graph, Head(deps), path, st))

RECURSIVE CycleRoots(_, _, _)
\* for (const node of graph.nodes) if (!visited.has(node)) visit(node, [])
CycleRoots(graph, nodes, st) ==
    IF nodes = <<>> THEN st
    ELSE CycleRoots(graph, Tail(nodes),
                    IF Head(nodes) \in st.visited THEN st ELSE CycleVisit(graph, Head(nodes), <<>>, st))

\* the traversal started from the first node only
detectCyclesFromFirst(graph) ==
    CycleRoots(graph, IF graph.nodes = <<>> THEN <<>> ELSE <<Head(graph.nodes)>>,
               [errors |-> <<>>, visited |-> {}, recursionStack |-> {}]).errors
detectCycles(graph) ==
    CycleRoots(graph, graph.nodes, [errors |-> <<>>, visited |-> {}, recursionStack |-> {}]).errors

(***************************************************************************)
(* resolvePluginOrder                                                      *)
(*                                                                         *)
(* An Error is a record: type names the message's fixed text, the other    *)
(* fields hold what the message interpolates.  A call's outcome is         *)
(* [ok |-> TRUE, value |-> ...] or [ok |-> FALSE, error |-> ...].          *)
(***************************************************************************)
Return(v) == [ok |-> TRUE, value |-> v]
Throw(e) == [ok |-> FALSE, error |-> e]

RECURSIVE MissingDepsOf(_, _)
\* only the first dependency of each plugin is looked up
MissingFirstDepOf(plugins, reg) ==
    Flatten([i \in DOMAIN plugins |->
                IF Len(plugins[i].dependencies) > 0 /\ ~RegistryHas(reg, plugins[i].dependencies[1])
                THEN <<[plugin |-> plugins[i].id, dep |-> plugins[i].dependencies[1]]>>
                ELSE <<>>])
\* the missingDeps list: one message per declared dependency that
\* registry.get does not find, plugin by plugin in list order
MissingDepsOf(plugins, reg) ==
    IF plugins = <<>> THEN <<>>
    ELSE LET plugin == Head(plugins)
             deps == plugin.dependencies
         IN [k \in 1..Len(SelectSeq(deps, LAMBDA d : ~RegistryHas(reg, d))) |->
                [plugin |-> plugin.id, dep |-> SelectSeq(deps, LAMBDA d : ~RegistryHas(reg, d))[k]]]
            \o MissingDepsOf(Tail(plugins), reg)

NoError == [type |-> "none"]

RECURSIVE OrderVisit(_, _, _)
RECURSIVE OrderVisitAll(_, _, _)
\* the inner function visit(pluginId); st holds sorted, visited, visiting
\* and error (NoError until a throw)
OrderVisitUnmarked(reg, pluginId, st) ==
    IF st.error # NoError THEN st
    ELSE IF pluginId \in st.visiting THEN st
    ELSE IF ~RegistryHas(reg, pluginId)
         THEN [st EXCEPT !.error = [type |-> "Plugin not found in registry", id |-> pluginId]]
    ELSE LET plugin == RegistryGet(reg, pluginId)
             entered == [st EXCEPT !.visiting = @ \cup {pluginId}]
             after == OrderVisitAll(reg, plugin.dependencies, entered)
         IN IF after.error # NoError THEN after
            ELSE [after EXCEPT !.visiting = @ \ {pluginId}, !.sorted = Append(@, plugin)]
OrderVisit(reg, pluginId, st) ==
    IF st.error # NoError THEN st
    ELSE IF pluginId \in st.visiting THEN st
    ELSE IF pluginId \in st.visited THEN st
    ELSE IF ~RegistryHas(reg, pluginId)
         THEN [st EXCEPT !.visiting = @ \cup {pluginId},
                         !.error = [type |-> "Plugin not found in registry", id |-> pluginId]]
    ELSE LET plugin == RegistryGet(reg, pluginId)
             entered == [st EXCEPT !.visiting = @ \cup {pluginId}]
             deps == plugin.dependencies
             sortedDeps == StableSort(deps, [d \in Range(deps), e \in Range(deps) |->
                                                codeUnitCompare(d, e)])
             after == OrderVisitAll(reg, sortedDeps, entered)
         IN IF after.error # NoError THEN after
            ELSE [after EXCEPT !.visiting = @ \ {pluginId},
                               !.visited = @ \cup {pluginId},
                               !.sorted = IF \E k \in DOMAIN @ : @[k].id = pluginId THEN @
                                          ELSE Append(@, plugin)]

\* for (const id of ids) visit(id)
OrderVisitAll(reg, ids, st) ==
    IF ids = <<>> THEN st
    ELSE OrderVisitAll(reg, Tail(ids), OrderVisit(reg, Head(ids), st))

resolvePluginOrder(plugins, reg) ==
    LET applicablePlugins == SelectSeq(plugins, LAMBDA p : RegistryHas(reg, p.id))
        graph == buildDependencyGraph(applicablePlugins)
        cycleErrors == detectCycles(graph)
        missingDeps == MissingDepsOf(applicablePlugins, reg)
        sortedPlugins == StableSort(applicablePlugins, CompareById(applicablePlugins))
        final == OrderVisitAll(reg, Ids(sortedPlugins),
                               [sorted |-> <<>>, visited |-> {}, visiting |-> {}, error |-> NoError])
    IN IF Len(cycleErrors) > 0
       THEN Throw([type |-> "Plugin dependency errors", cycles |-> cycleErrors])
       ELSE IF Len(missingDeps) > 0
       THEN Throw([type |-> "Missing plugin dependencies", missing |-> missingDeps])
       ELSE IF final.error # NoError THEN Throw(final.error)
       ELSE Return(final.sorted)

(***************************************************************************)
(* groupPluginsByPhase                                                     *)
(***************************************************************************)
\* const phases = ['pre', 'render', 'post', 'ci'] of groupPluginsByPhase
Phases == <<"pre", "render", "post", "ci">>

\* plugin.phase, without the default
PhaseOfNoDefault(plugin) == plugin.phase
\* plugin.phase || 'render'
PhaseOf(plugin) == IF plugin.phase = "none" THEN "render" ELSE plugin.phase

groupPluginsByPhaseInOrder(plugins) ==
    [phase \in Range(Phases) |-> SelectSeq(plugins, LAMBDA p : PhaseOf(p) = phase)]
groupPluginsByPhase(plugins) ==
    [phase \in Range(Phases) |->
        StableSort(SelectSeq(plugins, LAMBDA p : PhaseOf(p) = phase), CompareById(plugins))]

(***************************************************************************)
(* Plugin.apply: what a plugin does with the context it is given           *)
(*   noop        nothing                                                   *)
(*   throw       throws                                                    *)
(*   add         ctx.addFile(path, content)                                *)
(*   guardedAdd  throws when ctx.hasFile(path), else ctx.addFile(...)      *)
(*               (the stack plugins' "package.json already exists")        *)
(*   replace     delete ctx.files[path], then ctx.addFile(path, content)   *)
(* The outcome holds the files object after the call and the addFile calls *)
(* made, and the error when apply throws.                                  *)
(***************************************************************************)
ApplyError(plugin) == [type |-> "thrown by apply", plugin |-> plugin.id]

Apply(plugin, files) ==
    LET b == plugin.behaviour
        call == <<[plugin |-> plugin.id, path |-> b.path, content |-> b.content]>>
    IN CASE b.kind = "noop" -> [ok |-> TRUE, files |-> files, calls |-> <<>>]
         [] b.kind = "throw" -> [ok |-> FALSE, files |-> files, calls |-> <<>>, error |-> ApplyError(plugin)]
         [] b.kind = "add" -> [ok |-> TRUE, files |-> addFile(files, b.path, b.content), calls |-> call]
         [] b.kind = "guardedAdd" ->
                IF hasFile(files, b.path)
                THEN [ok |-> FALSE, files |-> files, calls |-> <<>>, error |-> ApplyError(plugin)]
                ELSE [ok |-> TRUE, files |-> addFile(files, b.path, b.content), calls |-> call]
         [] b.kind = "replace" ->
                [ok |-> TRUE, files |-> addFile(DeleteKey(files, b.path), b.path, b.content), calls |-> call]

(***************************************************************************)
(* Renderer.render                                                         *)
(***************************************************************************)
GENERATOR_VERSION == "0.1.0"
POLICY_VERSION == "1.0.0"

\* allPlugins.filter((p) => p.appliesTo(config))
ApplicablePlugins(reg, cfg) == SelectSeq(RegistryGetAll(reg), LAMBDA p : AppliesTo(p, cfg))

\* the error thrown when detectCycles reports cycles
FirstCycleOnly(cycleErrors) == [type |-> "Plugin dependency cycles", cycles |-> <<cycleErrors[1]>>]
CyclesError(cycleErrors) == [type |-> "Plugin dependency cycles", cycles |-> cycleErrors]

\* render up to the creation of the context: throws, or returns groupedPlugins
RenderPlan(reg, cfg) ==
    LET applicablePlugins == ApplicablePlugins(reg, cfg)
        cycleErrors == detectCycles(buildDependencyGraph(applicablePlugins))
        ordered == resolvePluginOrder(applicablePlugins, reg)
    IN IF Len(cycleErrors) > 0 THEN Throw(CyclesError(cycleErrors))
       ELSE IF ~ordered.ok THEN ordered
       ELSE Return(groupPluginsByPhase(ordered.value))

\* const phases = ['pre', 'render', 'post', 'ci'] of render
RenderPhasesSwapped == <<"pre", "post", "render", "ci">>
RenderPhases == <<"pre", "render", "post", "ci">>

\* the plugins in the order the two nested loops reach them
ExecutionOrder(grouped) == Flatten([i \in DOMAIN RenderPhases |-> grouped[RenderPhases[i]]])

\* every path the context holds after apply counts as written by the plugin
RecordWritersOfAllPaths(writers, beforeFiles, afterFiles, id) ==
    LET known == {writers[k].path : k \in DOMAIN writers}
        fresh == SelectSeq(afterFiles, LAMBDA path : path \notin known)
    IN [k \in DOMAIN writers |->
           IF writers[k].path \in Range(afterFiles)
           THEN [path |-> writers[k].path, writers |-> Append(writers[k].writers, id)]
           ELSE writers[k]]
       \o [k \in DOMAIN fresh |-> [path |-> fresh[k], writers |-> <<id>>]]
RECURSIVE RecordWriters(_, _, _, _)
\* for every path of afterFiles that beforeFiles lacks, push the plugin's id
\* on the path's writers
RecordWriters(writers, beforeFiles, afterFiles, id) ==
    IF afterFiles = <<>> THEN writers
    ELSE LET path == Head(afterFiles)
             old == IF \E k \in DOMAIN writers : writers[k].path = path
                    THEN writers[CHOOSE k \in DOMAIN writers : writers[k].path = path].writers
                    ELSE <<>>
             next == IF path \in Range(beforeFiles) THEN writers
                     ELSE IF \E k \in DOMAIN writers : writers[k].path = path
                     THEN [k \in DOMAIN writers |->
                              IF writers[k].path = path THEN [path |-> path, writers |-> Append(old, id)]
                              ELSE writers[k]]
                     ELSE Append(writers, [path |-> path, writers |-> <<id>>])
         IN RecordWriters(next, beforeFiles, Tail(afterFiles), id)

\* plugin?.conflictPolicy || 'error'
ConflictPolicyOf(reg, id) ==
    IF ~RegistryHas(reg, id) THEN "error"
    ELSE IF RegistryGet(reg, id).conflictPolicy = "none" THEN "error"
    ELSE RegistryGet(reg, id).conflictPolicy

\* the fileWriters entries for which the conflict check throws
Conflicting(writers, reg) ==
    SelectSeq(writers, LAMBDA e : /\ Len(e.writers) > 1
                                  /\ \E k \in DOMAIN e.writers : ConflictPolicyOf(reg, e.writers[k]) = "error")

ConflictError(entry) == [type |-> "File conflict", path |-> entry.path, writers |-> entry.writers]

\* normalization, sorting and the manifest: what render returns for the
\* files the context holds after the phases
RenderOutputHashRaw(files, cfg) ==
    LET sortedRaw == sortFileMap(files)
    IN [files |-> [i \in DOMAIN sortedRaw |-> [path |-> sortedRaw[i].path,
                                               content |-> normalizeLineEndings(sortedRaw[i].content)]],
        manifest |-> [generatorVersion |-> GENERATOR_VERSION,
                      policyVersion |-> POLICY_VERSION,
                      configHash |-> computeConfigHash(cfg),
                      files |-> [i \in DOMAIN sortedRaw |->
                                    [path |-> sortedRaw[i].path, sha256 |-> computeSha256(sortedRaw[i].content)]]]]
RenderOutput(files, cfg) ==
    LET normalizedFiles == [i \in DOMAIN files |->
                               [path |-> files[i].path, content |-> normalizeLineEndings(files[i].content)]]
        sortedFiles == sortFileMap(normalizedFiles)
    IN [files |-> sortedFiles,
        manifest |-> [generatorVersion |-> GENERATOR_VERSION,
                      policyVersion |-> POLICY_VERSION,
                      configHash |-> computeConfigHash(cfg),
                      files |-> [i \in DOMAIN sortedFiles |->
                                    [path |-> sortedFiles[i].path, sha256 |-> computeSha256(sortedFiles[i].content)]]]]

\* render after the phase loops: the conflict check, then the result
RenderFinal(writers, reg, files, cfg) ==
    IF Conflicting(writers, reg) # <<>> THEN Throw(ConflictError(Conflicting(writers, reg)[1]))
    ELSE Return(RenderOutput(files, cfg))

(***************************************************************************)
(* The CLI: paths and the file system                                      *)
(* A path is the sequence of its segments; an absolute path starts with    *)
(* the root segment "/".  The disk holds regular files (path and content)  *)
(* and directories.                                                        *)
(***************************************************************************)
\* path.isAbsolute
isAbsolute(path) == path # <<>> /\ path[1] = "/"

RECURSIVE NormalizeSegments(_, _)
\* the segments of a path with "." dropped and ".." resolved against the
\* segment before it (dropped at the root, kept when there is none to remove)
NormalizeSegments(done, rest) ==
    IF rest = <<>> THEN done
    ELSE LET seg == Head(rest)
         IN IF seg = "." THEN NormalizeSegments(done, Tail(rest))
            ELSE IF seg = ".." /\ done # <<>> /\ done[Len(done)] \notin {"/", ".."}
            THEN NormalizeSegments(SubSeq(done, 1, Len(done) - 1), Tail(rest))
            ELSE IF seg = ".." /\ done # <<>> /\ done[Len(done)] = "/"
            THEN NormalizeSegments(done, Tail(rest))
            ELSE NormalizeSegments(Append(done, seg), Tail(rest))

\* path.normalize: "." for a path that normalizes to nothing
normalize(path) ==
    LET segments == NormalizeSegments(<<>>, path)
    IN IF segments = <<>> THEN <<".">> ELSE segments

\* path.join(a, b)
join(a, b) == normalize(a \o b)

\* path.resolve(from, to) for an absolute from
resolve(from, to) ==
    IF isAbsolute(to) THEN NormalizeSegments(<<>>, to)
    ELSE NormalizeSegments(<<>>, from \o to)

\* path.dirname of an absolute path
dirname(path) == IF Len(path) <= 1 THEN path ELSE SubSeq(path, 1, Len(path) - 1)

\* targetPath.startsWith(absTargetDir)
startsWith(path, prefix) ==
    Len(path) >= Len(prefix) /\ SubSeq(path, 1, Len(prefix)) = prefix

\* validateFilePath(filePath): returns, or throws on ".." and on absolute
\* paths (of the segments of the model only ".." contains "..")
validateFilePath(filePath) ==
    IF \E i \in DOMAIN filePath : filePath[i] = ".."
    THEN Throw([type |-> "Path traversal detected", path |-> filePath])
    ELSE IF isAbsolute(filePath)
    THEN Throw([type |-> "Absolute path not allowed", path |-> filePath])
    ELSE Return(filePath)

\* the directories above a path, and the path itself
Ancestors(path) == {SubSeq(path, 1, n) : n \in 1..Len(path)}

IsFile(disk, path) == \E f \in disk.files : f.path = path
IsDirectory(disk, path) == path \in disk.dirs

\* fs.access(path): resolves when the path exists, rejects otherwise
fsAccessNever(disk, path) == FALSE
fsAccess(disk, path) == IsFile(disk, path) \/ IsDirectory(disk, path)

\* fs.readFile(path)
fsReadFile(disk, path) ==
    IF IsFile(disk, path) THEN Return((CHOOSE f \in disk.files : f.path = path).content)
    ELSE IF IsDirectory(disk, path) THEN Throw([type |-> "EISDIR", path |-> path])
    ELSE Throw([type |-> "ENOENT", path |-> path])

\* fs.mkdir(dir, { recursive: true }): rejects when a file is in the way
fsMkdir(disk, dir) ==
    IF \E a \in Ancestors(dir) : IsFile(disk, a)
    THEN Throw([type |-> "EEXIST", path |-> dir])
    ELSE Return([disk EXCEPT !.dirs = @ \cup Ancestors(dir)])

\* fs.writeFile(path, content): creates the file or replaces its content
fsWriteFile(disk, path, content) ==
    IF IsDirectory(disk, path) THEN Throw([type |-> "EISDIR", path |-> path])
    ELSE IF ~IsDirectory(disk, dirname(path)) THEN Throw([type |-> "ENOENT", path |-> path])
    ELSE Return([disk EXCEPT !.files = {f \in @ : f.path # path}
                                         \cup {[path |-> path, content |-> content]}])

\* normalize(resolve(packDir)) and normalize(resolve(targetDir))
absPackDir == <<"/", "p">>
absTargetDir == <<"/", "t">>

\* normalize(resolve(absTargetDir, normalize(file.path))); the paths of the
\* model hold no backslash for replace(/\\/g, '/') to turn into a slash
TargetPath(filePath) == normalize(resolve(absTargetDir, normalize(filePath)))

\* normalize(join(absPackDir, normalize(file.path)))
SourcePath(filePath) == normalize(join(absPackDir, normalize(filePath)))

\* one pass of the loop of apply over manifest.files: what happens to the
\* entry (conflict, added, or the error thrown) and the disk afterwards
ApplyEntry(disk, filePath) ==
    LET valid == validateFilePath(filePath)
        sourcePath == SourcePath(filePath)
        targetPath == TargetPath(filePath)
        content == fsReadFile(disk, sourcePath)
        made == fsMkdir(disk, dirname(targetPath))
        written == fsWriteFile(made.value, targetPath, content.value)
    IN IF ~valid.ok THEN [kind |-> "throw", error |-> valid.error, disk |-> disk]
       ELSE IF ~startsWith(targetPath, absTargetDir)
       THEN [kind |-> "throw", error |-> [type |-> "Path outside target directory", path |-> filePath],
             disk |-> disk]
       ELSE IF fsAccess(disk, targetPath) THEN [kind |-> "conflict", error |-> NoError, disk |-> disk]
       ELSE IF ~content.ok THEN [kind |-> "throw", error |-> content.error, disk |-> disk]
       ELSE IF ~made.ok THEN [kind |-> "throw", error |-> made.error, disk |-> disk]
       ELSE IF ~written.ok THEN [kind |-> "throw", error |-> written.error, disk |-> made.value]
       ELSE [kind |-> "added", error |-> NoError, disk |-> written.value]

\* no apply command has run: an empty disk
NoApply == [status |-> "none", disk |-> [files |-> {}, dirs |-> {}],
            readable |-> FALSE, manifest |-> <<>>, i |-> 1, conflicts |-> <<>>, added |-> 0,
            error |-> NoError]

(***************************************************************************)
(* The inputs the model explores                                           *)
(***************************************************************************)
\* the config of the renderer tests, as validateProjectConfig returns it
TestConfig == <<<<"projectType", "nextjs">>, <<"packageManager", "npm">>,
                <<"strictnessPreset", "startup">>, <<"testingLevel", "none">>,
                <<"billingProvider", "none">>, <<"analyticsProvider", "none">>,
                <<"observability", "none">>>>

\* the policy of the renderer tests
TestPolicy == resolvePolicy(TestConfig)

\* what each plugin writes when its behaviour writes
ContentOf(id) == CASE id = <<"a">> -> <<"x", "CR", "LF", "y">>
                   [] id = <<"b">> -> <<"y", "FF">>
                   [] id = <<"Z">> -> <<"CR", "z", "CR">>

\* lists of distinct ids, as a plugin's dependencies field holds them
DepLists == {d \in UNION {[1..n -> DepIds] : n \in 0..MaxEdges} :
                \A i, j \in DOMAIN d : i # j => d[i] # d[j]}

\* the dependency declarations of the three plugins
DepTables == {t \in [PluginIds -> DepLists] :
                 Len(t[<<"a">>]) + Len(t[<<"b">>]) + Len(t[<<"Z">>]) <= MaxEdges}

\* the orders in which the three plugins are registered
RegistrationOrders == {<<<<"Z">>, <<"a">>, <<"b">>>>, <<<<"b">>, <<"a">>, <<"Z">>>>}

\* the paths plugins write
WrittenPaths == {<<"Z">>, <<"a">>}

PhaseValues == {"none", "pre", "render", "post", "ci"}
PolicyValues == {"none", "error", "last-wins"}

Behaviours(id) ==
    {[kind |-> "noop"], [kind |-> "throw"]}
    \cup {[kind |-> k, path |-> p, content |-> ContentOf(id)] :
             k \in {"add", "guardedAdd", "replace"}, p \in WrittenPaths}

WritesOwnPath(id) == [kind |-> "add", path |-> id, content |-> ContentOf(id)]

\* the FileMaps passed as existingFiles
ExistingFiles ==
    {<<>>,
     <<[path |-> <<"a">>, content |-> <<"CR", "LF", "e">>]>>,
     <<[path |-> <<"Z">>, content |-> <<"e">>], [path |-> <<"a", "Z">>, content |-> <<"e", "CR">>]>>,
     <<[path |-> <<"a", "Z">>, content |-> <<"e", "CR">>], [path |-> <<"Z">>, content |-> <<"e">>]>>}

InitCommon ==
    /\ config = TestConfig
    /\ policy = TestPolicy
    /\ ctxRef = ContextFilesObject
    /\ pc = "idle"
    /\ schedule = <<>>
    /\ pos = 1
    /\ fileWriters = <<>>
    /\ applied = <<>>
    /\ addLog = <<>>
    /\ history = <<>>
    /\ oIn = <<>>
    /\ oOut = Return(<<>>)
    /\ cli = NoApply

\* three registered plugins: every dependency table, applicability and
\* registration order; each plugin writes the path named like itself
InitDependencies ==
    /\ \E t \in DepTables, app \in [PluginIds -> {{"nextjs"}, {"expo-eas"}}], q \in RegistrationOrders :
          registry = [i \in DOMAIN q |->
                         [id |-> q[i], dependencies |-> t[q[i]], phase |-> "none",
                          conflictPolicy |-> "none", appliesTo |-> app[q[i]],
                          behaviour |-> WritesOwnPath(q[i]), validate |-> "none"]]
    /\ hasExisting = FALSE
    /\ heap = [existing |-> <<>>, ctx |-> <<>>]
    /\ InitCommon

\* three registered plugins, all applicable: every choice of phases, with at
\* most one declared dependency
InitPhases ==
    /\ \E ph \in [PluginIds -> PhaseValues], p \in PluginIds, d \in DepLists :
          /\ Len(d) <= 1
          /\ registry = [i \in 1..3 |->
                            LET id == <<<<"a">>, <<"Z">>, <<"b">>>>[i]
                            IN [id |-> id, dependencies |-> IF id = p THEN d ELSE <<>>,
                                phase |-> ph[id], conflictPolicy |-> "none",
                                appliesTo |-> {"nextjs"}, behaviour |-> WritesOwnPath(id),
                                validate |-> "none"]]
    /\ hasExisting = FALSE
    /\ heap = [existing |-> <<>>, ctx |-> <<>>]
    /\ InitCommon

\* two registered plugins without dependencies: every behaviour and conflict
\* policy, either execution order, every existingFiles argument
InitFiles ==
    /\ \E ba \in Behaviours(<<"a">>), bz \in Behaviours(<<"Z">>),
          ca \in PolicyValues, cz \in PolicyValues, pz \in {"none", "pre"} :
          registry = <<[id |-> <<"a">>, dependencies |-> <<>>, phase |-> "none",
                        conflictPolicy |-> ca, appliesTo |-> {"nextjs"}, behaviour |-> ba,
                        validate |-> "none"],
                       [id |-> <<"Z">>, dependencies |-> <<>>, phase |-> pz,
                        conflictPolicy |-> cz, appliesTo |-> {"nextjs"}, behaviour |-> bz,
                        validate |-> "none"]>>
    /\ \/ /\ hasExisting = FALSE
          /\ heap = [existing |-> <<>>, ctx |-> <<>>]
       \/ /\ hasExisting = TRUE
          /\ \E e \in ExistingFiles : heap = [existing |-> e, ctx |-> <<>>]
    /\ InitCommon

\* a direct call of resolvePluginOrder: every dependency table, every set of
\* registered plugins; the caller holds the three plugin objects
PluginObject(id, deps) ==
    [id |-> id, dependencies |-> deps, phase |-> "none", conflictPolicy |-> "none",
     appliesTo |-> {"nextjs"}, behaviour |-> WritesOwnPath(id), validate |-> "none"]

InitOrder ==
    /\ \E t \in DepTables, S \in SUBSET PluginIds :
          /\ registry = SelectSeq([i \in 1..3 |-> PluginObject(<<<<"Z">>, <<"a">>, <<"b">>>>[i],
                                                               t[<<<<"Z">>, <<"a">>, <<"b">>>>[i]])],
                                  LAMBDA p : p.id \in S)
          /\ oIn = [i \in 1..3 |-> PluginObject(<<<<"Z">>, <<"a">>, <<"b">>>>[i],
                                                t[<<<<"Z">>, <<"a">>, <<"b">>>>[i]])]
    /\ oOut = Return(<<>>)
    /\ pc = "caller"
    /\ config = TestConfig
    /\ policy = TestPolicy
    /\ hasExisting = FALSE
    /\ heap = [existing |-> <<>>, ctx |-> <<>>]
    /\ ctxRef = ContextFilesObject
    /\ schedule = <<>>
    /\ pos = 1
    /\ fileWriters = <<>>
    /\ applied = <<>>
    /\ addLog = <<>>
    /\ history = <<>>
    /\ cli = NoApply

\* direct calls on plugins of every phase: the caller holds three registered
\* plugin objects without dependencies
InitGroup ==
    /\ \E ph \in [PluginIds -> PhaseValues] :
          /\ oIn = [i \in 1..3 |-> [PluginObject(<<<<"Z">>, <<"b">>, <<"a">>>>[i], <<>>)
                                       EXCEPT !.phase = ph[<<<<"Z">>, <<"b">>, <<"a">>>>[i]]]]
          /\ registry = oIn
    /\ oOut = Return(<<>>)
    /\ pc = "caller"
    /\ config = TestConfig
    /\ policy = TestPolicy
    /\ hasExisting = FALSE
    /\ heap = [existing |-> <<>>, ctx |-> <<>>]
    /\ ctxRef = ContextFilesObject
    /\ schedule = <<>>
    /\ pos = 1
    /\ fileWriters = <<>>
    /\ applied = <<>>
    /\ addLog = <<>>
    /\ history = <<>>
    /\ cli = NoApply

\* what a plugin's validate hook is: absent ("none"), or a function that
\* returns { valid: true } or { valid: false, errors: [...] }
ValidateHooks == {"none", "valid", "invalid"}

\* the policies passed to render: the resolved one, and a copy of it with
\* another version
RenderPolicies == {TestPolicy, [TestPolicy EXCEPT !.version = "2.0.0"]}

\* the paths the plugins of InitHooks write
HookPaths == {<<"a">>, ProtoKey}

\* two registered plugins that each add one file: every validate hook,
\* either policy, with and without seeded files
InitHooks ==
    /\ \E va \in ValidateHooks, vz \in ValidateHooks, pa \in HookPaths, pz \in HookPaths,
          cz \in {"none", "last-wins"} :
          registry = <<[PluginObject(<<"a">>, <<>>) EXCEPT
                           !.validate = va, !.conflictPolicy = "last-wins",
                           !.behaviour = [kind |-> "add", path |-> pa, content |-> ContentOf(<<"a">>)]],
                       [PluginObject(<<"Z">>, <<>>) EXCEPT
                           !.validate = vz, !.conflictPolicy = cz,
                           !.behaviour = [kind |-> "add", path |-> pz, content |-> ContentOf(<<"Z">>)]]>>
    /\ \/ /\ hasExisting = FALSE
          /\ heap = [existing |-> <<>>, ctx |-> <<>>]
       \/ /\ hasExisting = TRUE
          /\ heap = [existing |-> <<[path |-> <<"a", "Z">>, content |-> <<"e", "CR">>]>>, ctx |-> <<>>]
    /\ \E pol \in RenderPolicies : policy = pol
    /\ config = TestConfig
    /\ ctxRef = ContextFilesObject
    /\ pc = "idle"
    /\ schedule = <<>>
    /\ pos = 1
    /\ fileWriters = <<>>
    /\ applied = <<>>
    /\ addLog = <<>>
    /\ history = <<>>
    /\ oIn = <<>>
    /\ oOut = Return(<<>>)
    /\ cli = NoApply

Init == InitDependencies \/ InitPhases \/ InitFiles \/ InitOrder \/ InitGroup \/ InitHooks

(***************************************************************************)
(* The caller's steps through render                                       *)
(***************************************************************************)
\* render is called and throws before it creates the context (a dependency
\* cycle, a missing dependency)
RenderRejects ==
    /\ pc = "idle"
    /\ Len(history) < MaxRenders
    /\ LET plan == RenderPlan(registry, config)
       IN /\ ~plan.ok
          /\ history' = Append(history, plan)
    /\ applied' = <<>>
    /\ addLog' = <<>>
    /\ fileWriters' = <<>>
    /\ schedule' = <<>>
    /\ pos' = 1
    /\ UNCHANGED <<cli, registry, config, policy, hasExisting, heap, ctxRef, pc, oIn, oOut>>

\* render is called, plans the run and creates the context and fileWriters
RenderBegins ==
    /\ pc = "idle"
    /\ Len(history) < MaxRenders
    /\ LET plan == RenderPlan(registry, config)
       IN /\ plan.ok
          /\ schedule' = ExecutionOrder(plan.value)
    /\ pos' = 1
    /\ heap' = NewContext(heap, hasExisting)
    /\ ctxRef' = ContextFilesObject
    /\ fileWriters' = <<>>
    /\ applied' = <<>>
    /\ addLog' = <<>>
    /\ pc' = "applying"
    /\ UNCHANGED <<cli, registry, config, policy, hasExisting, history, oIn, oOut>>

\* one pass of the inner loop: plugin.apply(context) returns
ApplyReturns ==
    /\ pc = "applying"
    /\ pos <= Len(schedule)
    /\ LET plugin == schedule[pos]
           beforeFiles == Keys(heap[ctxRef])
           out == Apply(plugin, heap[ctxRef])
       IN /\ out.ok
          /\ heap' = [heap EXCEPT ![ctxRef] = out.files]
          /\ fileWriters' = RecordWriters(fileWriters, beforeFiles, Keys(out.files), plugin.id)
          /\ applied' = Append(applied, plugin.id)
          /\ addLog' = addLog \o out.calls
    /\ pos' = pos + 1
    /\ UNCHANGED <<cli, registry, config, policy, hasExisting, ctxRef, pc, schedule, history, oIn, oOut>>

\* apply throws and the loop goes on to the next plugin
ApplyThrowsSwallowed ==
    /\ pc = "applying"
    /\ pos <= Len(schedule)
    /\ ~Apply(schedule[pos], heap[ctxRef]).ok
    /\ applied' = Append(applied, schedule[pos].id)
    /\ pos' = pos + 1
    /\ UNCHANGED <<cli, registry, config, policy, hasExisting, heap, ctxRef, pc, schedule,
                   fileWriters, addLog, history, oIn, oOut>>

\* one pass of the inner loop: plugin.apply(context) throws, and so does render
ApplyThrows ==
    /\ pc = "applying"
    /\ pos <= Len(schedule)
    /\ LET plugin == schedule[pos]
           out == Apply(plugin, heap[ctxRef])
       IN /\ ~out.ok
          /\ heap' = [heap EXCEPT ![ctxRef] = out.files]
          /\ applied' = Append(applied, plugin.id)
          /\ addLog' = addLog \o out.calls
          /\ history' = Append(history, Throw(out.error))
    /\ pc' = "idle"
    /\ UNCHANGED <<cli, registry, config, policy, hasExisting, ctxRef, schedule, pos, fileWriters, oIn, oOut>>

\* the loops are over: the conflict check, then normalization, sorting and
\* the manifest; render returns or throws
RenderFinishes ==
    /\ pc = "applying"
    /\ pos > Len(schedule)
    /\ history' = Append(history, RenderFinal(fileWriters, registry, heap[ctxRef], config))
    /\ pc' = "idle"
    /\ UNCHANGED <<cli, registry, config, policy, hasExisting, heap, ctxRef, schedule, pos,
                   fileWriters, applied, addLog, oIn, oOut>>

\* the lists of distinct plugins taken from the caller's plugin objects
PluginLists(objects) ==
    {[i \in DOMAIN q |-> objects[q[i]]] :
        q \in {r \in UNION {[1..n -> DOMAIN objects] : n \in 0..Len(objects)} :
                  \A i, j \in DOMAIN r : i # j => r[i] # r[j]}}

\* the caller calls resolvePluginOrder(plugins, registry) with a list of its
\* plugin objects
ResolveCall ==
    /\ pc = "caller"
    /\ \E plugins \in PluginLists(oIn) :
          /\ oIn' = plugins
          /\ oOut' = resolvePluginOrder(plugins, registry)
    /\ pc' = "resolved"
    /\ UNCHANGED <<cli, registry, config, policy, hasExisting, heap, ctxRef, schedule, pos,
                   fileWriters, applied, addLog, history>>

\* the caller calls detectCycles(buildDependencyGraph(plugins)) with a list of
\* its plugin objects
DetectCyclesCall ==
    /\ pc = "caller"
    /\ \E plugins \in PluginLists(oIn) :
          /\ oIn' = plugins
          /\ oOut' = Return(detectCycles(buildDependencyGraph(plugins)))
    /\ pc' = "detected"
    /\ UNCHANGED <<cli, registry, config, policy, hasExisting, heap, ctxRef, schedule, pos,
                   fileWriters, applied, addLog, history>>

\* the caller calls groupPluginsByPhase(plugins) with a list of its plugin objects
GroupCall ==
    /\ pc = "caller"
    /\ \E plugins \in PluginLists(oIn) :
          /\ oIn' = plugins
          /\ oOut' = Return(groupPluginsByPhase(plugins))
    /\ pc' = "grouped"
    /\ UNCHANGED <<cli, registry, config, policy, hasExisting, heap, ctxRef, schedule, pos,
                   fileWriters, applied, addLog, history>>

Next ==
    \/ RenderRejects \/ RenderBegins \/ ApplyReturns \/ ApplyThrows \/ RenderFinishes
    \/ ResolveCall \/ DetectCyclesCall \/ GroupCall

Spec == Init /\ [][Next]_vars

(***************************************************************************)
(* The config hash of the manifest, for the configs a caller can build     *)
(***************************************************************************)
\* the fields of ProjectConfigSchema, in the order of the schema
SchemaKeys == <<"projectType", "backend", "packageManager", "strictnessPreset",
                "testingLevel", "billingProvider", "analyticsProvider", "observability">>

\* the values the schema allows for a field; "absent" for the optional one
FieldValues(k) ==
    CASE k = "projectType" -> {"expo-eas", "nextjs"}
      [] k = "backend" -> {"absent", "supabase"}
      [] k = "packageManager" -> {"npm"}
      [] k = "strictnessPreset" -> {"startup", "pro", "enterprise"}
      [] k = "testingLevel" -> {"none", "unit", "unit-e2e"}
      [] k = "billingProvider" -> {"none", "revenuecat", "stripe"}
      [] k = "analyticsProvider" -> {"none", "amplitude", "mixpanel", "posthog"}
      [] k = "observability" -> {"none", "sentry"}

\* the config object with the given field values, its keys inserted in the given order
MakeConfig(values, order) ==
    LET present == SelectSeq(order, LAMBDA k : values[k] # "absent")
    IN [i \in DOMAIN present |-> <<present[i], values[present[i]]>>]

Reverse(s) == [i \in DOMAIN s |-> s[Len(s) + 1 - i]]

\* the configs whose hashes are compared: four fields vary, the others hold
\* their defaults; keys inserted in schema order or in the reverse order
HashConfigs ==
    {MakeConfig(v, o) :
        v \in {[k \in Range(SchemaKeys) |->
                   CASE k = "projectType" -> pt
                     [] k = "backend" -> be
                     [] k = "strictnessPreset" -> sp
                     [] k = "observability" -> ob
                     [] k = "packageManager" -> "npm"
                     [] OTHER -> "none"] :
                 pt \in FieldValues("projectType"), be \in FieldValues("backend"),
                 sp \in {"startup", "pro"}, ob \in FieldValues("observability")},
        o \in {SchemaKeys, Reverse(SchemaKeys)}}

InitHash ==
    /\ pc = "hashing"
    /\ registry = <<>>
    /\ config = TestConfig
    /\ policy = TestPolicy
    /\ hasExisting = FALSE
    /\ heap = [existing |-> <<>>, ctx |-> <<>>]
    /\ ctxRef = ContextFilesObject
    /\ schedule = <<>>
    /\ pos = 1
    /\ fileWriters = <<>>
    /\ applied = <<>>
    /\ addLog = <<>>
    /\ history = <<>>
    /\ oIn = <<>>
    /\ oOut = Return(<<>>)
    /\ cli = NoApply

\* render builds the manifest for a config: configHash: computeConfigHash(config)
ManifestConfigHash ==
    /\ pc = "hashing"
    /\ Len(oIn) < MaxHashes
    /\ \E cfg \in HashConfigs :
          /\ config' = cfg
          /\ oIn' = Append(oIn, cfg)
          /\ oOut' = Return(Append(oOut.value, computeConfigHash(cfg)))
    /\ UNCHANGED <<cli, registry, policy, hasExisting, heap, ctxRef, pc, schedule, pos,
                   fileWriters, applied, addLog, history>>

SpecHash == InitHash /\ [][ManifestConfigHash]_vars

(***************************************************************************)
(* A caller filling a registry; oIn is the list of the plugins it has      *)
(* passed to register, oOut the outcome of the last call                   *)
(***************************************************************************)
\* the plugin objects passed to register: two different objects for every id
RegisterInputs == {PluginObject(id, d) : id \in PluginIds, d \in {<<>>, <<MissingId>>}}

InitRegistry ==
    /\ pc = "registering"
    /\ registry = <<>>
    /\ config = TestConfig
    /\ policy = TestPolicy
    /\ hasExisting = FALSE
    /\ heap = [existing |-> <<>>, ctx |-> <<>>]
    /\ ctxRef = ContextFilesObject
    /\ schedule = <<>>
    /\ pos = 1
    /\ fileWriters = <<>>
    /\ applied = <<>>
    /\ addLog = <<>>
    /\ history = <<>>
    /\ oIn = <<>>
    /\ oOut = Return(<<>>)
    /\ cli = NoApply

\* registry.register(plugin)
RegisterCall ==
    /\ pc = "registering"
    /\ Len(oIn) < MaxRegisters
    /\ \E plugin \in RegisterInputs :
          /\ oIn' = Append(oIn, plugin)
          /\ oOut' = IF RegistryHas(registry, plugin.id)
                     THEN Throw([type |-> "Plugin is already registered", id |-> plugin.id])
                     ELSE Return(<<>>)
          /\ registry' = RegistryRegister(registry, plugin)
    /\ UNCHANGED <<cli, config, policy, hasExisting, heap, ctxRef, pc, schedule, pos,
                   fileWriters, applied, addLog, history>>

SpecRegistry == InitRegistry /\ [][RegisterCall]_vars

(***************************************************************************)
(* A caller using an InMemoryGeneratorContext it constructed; addLog holds *)
(* its addFile calls                                                       *)
(***************************************************************************)
\* the paths the caller asks about and adds
ContextPaths == {<<"a">>, <<"Z">>, InheritedKey}

\* the state after new InMemoryGeneratorContext(config, policy, existingFiles)
InitContext ==
    /\ pc = "context"
    /\ \/ /\ hasExisting = FALSE
          /\ heap = NewContext([existing |-> <<>>, ctx |-> <<>>], FALSE)
       \/ /\ hasExisting = TRUE
          /\ \E e \in ExistingFiles : heap = NewContext([existing |-> e, ctx |-> <<>>], TRUE)
    /\ ctxRef = ContextFilesObject
    /\ registry = <<>>
    /\ config = TestConfig
    /\ policy = TestPolicy
    /\ schedule = <<>>
    /\ pos = 1
    /\ fileWriters = <<>>
    /\ applied = <<>>
    /\ addLog = <<>>
    /\ history = <<>>
    /\ oIn = <<>>
    /\ oOut = Return(<<>>)
    /\ cli = NoApply

\* context.addFile(path, content)
AddFileCall ==
    /\ pc = "context"
    /\ Len(addLog) < MaxAdds
    /\ \E path \in ContextPaths, content \in {<<"x">>, <<"y", "CR">>} :
          /\ heap' = [heap EXCEPT ![ctxRef] = addFile(@, path, content)]
          /\ addLog' = Append(addLog, [plugin |-> <<>>, path |-> path, content |-> content])
    /\ UNCHANGED <<cli, registry, config, policy, hasExisting, ctxRef, pc, schedule, pos,
                   fileWriters, applied, history, oIn, oOut>>

SpecContext == InitContext /\ [][AddFileCall]_vars

(***************************************************************************)
(* resolvePolicy, for every config the schema admits                       *)
(***************************************************************************)
\* the configs validateProjectConfig returns
ProjectConfigs ==
    {MakeConfig([k \in Range(SchemaKeys) |->
                    CASE k = "projectType" -> pt
                      [] k = "backend" -> be
                      [] k = "packageManager" -> pm
                      [] k = "strictnessPreset" -> sp
                      [] k = "testingLevel" -> tl
                      [] k = "billingProvider" -> bp
                      [] k = "analyticsProvider" -> ap
                      [] k = "observability" -> ob], SchemaKeys) :
        pt \in FieldValues("projectType"), be \in FieldValues("backend"),
        pm \in FieldValues("packageManager"), sp \in FieldValues("strictnessPreset"),
        tl \in FieldValues("testingLevel"), bp \in FieldValues("billingProvider"),
        ap \in FieldValues("analyticsProvider"), ob \in FieldValues("observability")}

InitPolicy ==
    /\ pc = "policy"
    /\ config \in ProjectConfigs
    /\ policy = TestPolicy
    /\ registry = <<>>
    /\ hasExisting = FALSE
    /\ heap = [existing |-> <<>>, ctx |-> <<>>]
    /\ ctxRef = ContextFilesObject
    /\ schedule = <<>>
    /\ pos = 1
    /\ fileWriters = <<>>
    /\ applied = <<>>
    /\ addLog = <<>>
    /\ history = <<>>
    /\ oIn = <<>>
    /\ oOut = Return(<<>>)
    /\ cli = NoApply

\* policy = resolvePolicy(config)
ResolvePolicyCall ==
    /\ pc = "policy"
    /\ policy' = resolvePolicy(config)
    /\ pc' = "policyResolved"
    /\ UNCHANGED <<cli, registry, config, hasExisting, heap, ctxRef, schedule, pos,
                   fileWriters, applied, addLog, history, oIn, oOut>>

SpecPolicy == InitPolicy /\ [][ResolvePolicyCall]_vars

(***************************************************************************)
(* The CLI apply command: lattice apply <packDir> <targetDir>              *)
(***************************************************************************)
\* the file.path values a manifest holds: a, ./a, d/a, d, ../a, /t/a
ManifestPaths == {<<"a">>, <<".", "a">>, <<"d", "a">>, <<"d">>, <<"..", "a">>, <<"/", "t", "a">>}

\* manifest.files, as the paths of its entries
Manifests == UNION {[1..n -> ManifestPaths] : n \in 0..MaxEntries}

\* a disk with the given files and empty directories, and the directories
\* the files are in
DiskOf(files, emptyDirs) ==
    [files |-> files,
     dirs |-> {<<"/">>} \cup emptyDirs \cup UNION {Ancestors(dirname(f.path)) : f \in files}]

\* the files of the pack directory
PackTrees ==
    {{[path |-> <<"/", "p", "a">>, content |-> "pack"], [path |-> <<"/", "p", "d", "a">>, content |-> "pack"]},
     {[path |-> <<"/", "p", "a">>, content |-> "pack"], [path |-> <<"/", "p", "d">>, content |-> "pack"]}}

\* the target directory before the command: absent, empty, holding files or
\* directories at the manifest's paths, or a file where the directory should be
TargetTrees ==
    {[files |-> {}, dirs |-> {}],
     [files |-> {}, dirs |-> {<<"/", "t">>}],
     [files |-> {[path |-> <<"/", "t", "a">>, content |-> "old"]}, dirs |-> {}],
     [files |-> {[path |-> <<"/", "t", "d">>, content |-> "old"]}, dirs |-> {}],
     [files |-> {[path |-> <<"/", "t", "d", "a">>, content |-> "old"]}, dirs |-> {}],
     [files |-> {}, dirs |-> {<<"/", "t">>, <<"/", "t", "a">>}],
     [files |-> {[path |-> <<"/", "t">>, content |-> "old"]}, dirs |-> {}]}

InitApply ==
    /\ pc = "cli"
    /\ \E manifest \in Manifests, pack \in PackTrees, target \in TargetTrees, readable \in BOOLEAN :
          /\ readable \/ manifest = <<>>
          /\ cli = [status |-> "idle",
                    disk |-> DiskOf(pack \cup target.files, {absPackDir} \cup target.dirs),
                    readable |-> readable, manifest |-> manifest, i |-> 1,
                    conflicts |-> <<>>, added |-> 0, error |-> NoError]
    /\ registry = <<>>
    /\ config = TestConfig
    /\ policy = TestPolicy
    /\ hasExisting = FALSE
    /\ heap = [existing |-> <<>>, ctx |-> <<>>]
    /\ ctxRef = ContextFilesObject
    /\ schedule = <<>>
    /\ pos = 1
    /\ fileWriters = <<>>
    /\ applied = <<>>
    /\ addLog = <<>>
    /\ history = <<>>
    /\ oIn = <<>>
    /\ oOut = Return(<<>>)

\* apply reads the manifest and creates the target directory
ApplyStarts ==
    /\ pc = "cli"
    /\ cli.status = "idle"
    /\ LET made == fsMkdir(cli.disk, absTargetDir)
       IN cli' = IF ~cli.readable
                 THEN [cli EXCEPT !.status = "failed", !.error = [type |-> "Failed to read manifest"]]
                 ELSE IF ~made.ok THEN [cli EXCEPT !.status = "failed", !.error = made.error]
                 ELSE [cli EXCEPT !.status = "running", !.disk = made.value]
    /\ UNCHANGED engineVars

\* one pass of the loop: fs.access finds the target path
ApplyEntryConflicts ==
    /\ cli.status = "running"
    /\ cli.i <= Len(cli.manifest)
    /\ ApplyEntry(cli.disk, cli.manifest[cli.i]).kind = "conflict"
    /\ cli' = [cli EXCEPT !.conflicts = Append(@, cli.manifest[cli.i]), !.i = @ + 1]
    /\ UNCHANGED engineVars

\* one pass of the loop: the pack file is copied to the target path
ApplyEntryAdds ==
    /\ cli.status = "running"
    /\ cli.i <= Len(cli.manifest)
    /\ LET out == ApplyEntry(cli.disk, cli.manifest[cli.i])
       IN /\ out.kind = "added"
          /\ cli' = [cli EXCEPT !.disk = out.disk, !.added = @ + 1, !.i = @ + 1]
    /\ UNCHANGED engineVars

\* one pass of the loop throws, and so does apply
ApplyEntryThrows ==
    /\ cli.status = "running"
    /\ cli.i <= Len(cli.manifest)
    /\ LET out == ApplyEntry(cli.disk, cli.manifest[cli.i])
       IN /\ out.kind = "throw"
          /\ cli' = [cli EXCEPT !.disk = out.disk, !.status = "failed", !.error = out.error]
    /\ UNCHANGED engineVars

\* the loop is over: apply reports the conflicts and the count, and returns
ApplyFinishes ==
    /\ cli.status = "running"
    /\ cli.i > Len(cli.manifest)
    /\ cli' = [cli EXCEPT !.status = "done"]
    /\ UNCHANGED engineVars

NextApply == ApplyStarts \/ ApplyEntryConflicts \/ ApplyEntryAdds \/ ApplyEntryThrows \/ ApplyFinishes

SpecApply == InitApply /\ [][NextApply]_vars

(***************************************************************************)
(* What the claims speak about                                             *)
(***************************************************************************)
\* a render call has returned or thrown, and the logs are those of that call
Finished == pc = "idle" /\ history # <<>>

\* the outcome of the render call that finished last
Last == history[Len(history)]

\* the applicable plugins of the registry, as objects
Applicable == {registry[i] : i \in {k \in DOMAIN registry : AppliesTo(registry[k], config)}}

\* the plugin object with an id that was applied
Applied(i) == RegistryGet(registry, applied[i])

\* the plugins that called addFile on a path during the call
WritersOf(path) == {addLog[k].plugin : k \in {n \in DOMAIN addLog : addLog[n].path = path}}

\* a declared conflict policy, 'error' when the plugin declares none
DeclaredPolicy(id) ==
    LET plugin == RegistryGet(registry, id)
    IN IF plugin.conflictPolicy = "last-wins" THEN "last-wins" ELSE "error"

\* the paths two or more plugins wrote, one of them with policy 'error'
ConflictedPaths ==
    {path \in Paths : /\ Cardinality(WritersOf(path)) >= 2
                      /\ \E id \in WritersOf(path) : DeclaredPolicy(id) = "error"}

\* C1: when two or more applied plugins call addFile on one path and one of
\* them has conflictPolicy 'error' (or none), render throws a file-conflict
\* error naming such a path and all the plugins that wrote it
C1_ConflictingWritesAbort ==
    (Finished /\ pos > Len(schedule) /\ ConflictedPaths # {}) =>
        /\ ~Last.ok
        /\ Last.error.type = "File conflict"
        /\ Last.error.path \in ConflictedPaths
        /\ Range(Last.error.writers) = WritersOf(Last.error.path)

\* C2: the render calls made on one Renderer with the same config, policy
\* and existingFiles all have the same outcome (the same error, or equal file
\* maps and manifests, in the same order), and every call starts from a
\* context that holds the caller's existingFiles and nothing else
C2_Deterministic ==
    /\ \A i, j \in DOMAIN history : history[i] = history[j]
    /\ (pc = "applying" /\ pos = 1) =>
           \A path \in Paths :
               getFile(heap[ctxRef], path) = IF hasExisting THEN getFile(heap.existing, path)
                                             ELSE "undefined"

C2_Witness ==
    /\ Len(history) >= 2
    /\ pc = "idle"
    /\ history[2].ok
    /\ addLog # <<>>
    /\ hasExisting
    /\ \E path \in Paths : hasFile(heap.existing, path) /\ hasFile(history[2].value.files, path)
    /\ \E i \in DOMAIN schedule : schedule[i].behaviour.kind = "guardedAdd"

\* C3: every plugin render applies is one whose appliesTo(config) is true
C3_OnlyApplicableApplied ==
    \A i \in DOMAIN applied : AppliesTo(Applied(i), config)

\* C4: in a list resolvePluginOrder returns, every plugin comes after every
\* plugin it declares as a dependency
C4_DependenciesFirst ==
    (pc = "resolved" /\ oOut.ok) =>
        \A i \in DOMAIN oOut.value :
            \A d \in Range(oOut.value[i].dependencies) :
                \E j \in 1..(i - 1) : oOut.value[j].id = d

\* the dependency declarations of a set of plugins, as a relation on ids
DeclaredEdges(plugins) == UNION {{<<p.id, d>> : d \in Range(p.dependencies)} : p \in plugins}

RECURSIVE Closure(_, _)
\* the pairs joined by one or more edges of E, grown from R
Closure(E, R) ==
    LET step == R \cup {<<x[1][1], x[2][2]>> : x \in {y \in R \X E : y[1][2] = y[2][1]}}
    IN IF step = R THEN R ELSE Closure(E, step)

\* the declarations contain a directed cycle
HasCycle(E) == \E p \in Closure(E, E) : p[1] = p[2]

\* a render call is the subject of the state (not a direct resolvePluginOrder call)
Rendering == pc \in {"idle", "applying"}

\* C5: when the dependencies declared among the applicable plugins contain a
\* cycle, no plugin is applied and every render call throws an error that
\* carries all the cycle descriptions detectCycles reports for them
C5_CyclesAbort ==
    (Rendering /\ HasCycle(DeclaredEdges(Applicable))) =>
        /\ pc = "idle"
        /\ applied = <<>>
        /\ \A k \in DOMAIN history :
              /\ ~history[k].ok
              /\ history[k].error.type = "Plugin dependency cycles"
              /\ history[k].error.cycles =
                     detectCycles(buildDependencyGraph(ApplicablePlugins(registry, config)))

C5_Witness ==
    /\ Finished
    /\ HasCycle(DeclaredEdges(Applicable))
    /\ ~Last.ok
    /\ Len(Last.error.cycles) >= 2

\* a plugin and a dependency it declares that is not registered
MissingPairs(plugins) == {e \in DeclaredEdges(plugins) : ~RegistryHas(registry, e[2])}

\* the registered plugins of the list passed to resolvePluginOrder
Candidates == {p \in Range(oIn) : RegistryHas(registry, p.id)}

\* C6: without a dependency cycle, when an applicable (candidate) plugin
\* declares a dependency that is not registered, render applies no plugin and
\* throws, and resolvePluginOrder throws, a missing-dependency error naming
\* exactly those plugins with their missing ids
C6_MissingDependencyAborts ==
    /\ (Rendering /\ ~HasCycle(DeclaredEdges(Applicable)) /\ MissingPairs(Applicable) # {}) =>
          /\ pc = "idle"
          /\ applied = <<>>
          /\ \A k \in DOMAIN history :
                /\ ~history[k].ok
                /\ history[k].error.type = "Missing plugin dependencies"
                /\ {<<m.plugin, m.dep>> : m \in Range(history[k].error.missing)} = MissingPairs(Applicable)
    /\ (pc = "resolved" /\ ~HasCycle(DeclaredEdges(Candidates)) /\ MissingPairs(Candidates) # {}) =>
          /\ ~oOut.ok
          /\ oOut.error.type = "Missing plugin dependencies"
          /\ {<<m.plugin, m.dep>> : m \in Range(oOut.error.missing)} = MissingPairs(Candidates)

C6_Witness ==
    /\ Finished
    /\ ~HasCycle(DeclaredEdges(Applicable))
    /\ Cardinality(MissingPairs(Applicable)) >= 2
    /\ ~Last.ok
    /\ Last.error.type = "Missing plugin dependencies"

\* the i-th apply call of the render threw: the plugin always throws, or it
\* throws on an existing path and made no addFile call
Threw(i) ==
    \/ Applied(i).behaviour.kind = "throw"
    \/ /\ Applied(i).behaviour.kind = "guardedAdd"
       /\ \A k \in DOMAIN addLog : addLog[k].plugin # applied[i]

\* C7: when a plugin's apply throws, it is the last plugin applied, and
\* render throws that very error
C7_ApplyErrorPropagates ==
    \A i \in DOMAIN applied :
        Threw(i) => /\ i = Len(applied)
                    /\ pc = "idle"
                    /\ Last = Throw(ApplyError(Applied(i)))

C7_Witness ==
    /\ Finished
    /\ applied # <<>>
    /\ Threw(Len(applied))
    /\ Len(schedule) > Len(applied)
    /\ Last = Throw(ApplyError(Applied(Len(applied))))

\* the place of a declared phase in pre, render, post, ci; render when none is declared
DeclaredPhaseRank(plugin) ==
    CASE plugin.phase = "pre" -> 1
      [] plugin.phase \in {"render", "none"} -> 2
      [] plugin.phase = "post" -> 3
      [] plugin.phase = "ci" -> 4

\* C8: the apply calls of a render come one after the other, all of phase
\* 'pre' before any of 'render' (the phase of a plugin that declares none),
\* those before any of 'post', those before any of 'ci'
C8_PhaseOrder ==
    \A i, j \in DOMAIN applied :
        i < j => DeclaredPhaseRank(Applied(i)) <= DeclaredPhaseRank(Applied(j))

C8_Witness ==
    /\ Finished
    /\ Last.ok
    /\ Len(applied) = 3
    /\ Applied(1).phase = "pre"
    /\ Applied(2).phase = "none"
    /\ Applied(3).phase = "post"
    /\ registry[1].id = applied[2]

\* C9: the paths of a returned file map, and those of manifest.files, are in
\* ascending lexicographic order
C9_PathsAscending ==
    (Finished /\ Last.ok) =>
        /\ IsAscending(Keys(Last.value.files))
        /\ IsAscending(Keys(Last.value.manifest.files))

\* C10: manifest.files lists the paths of the returned file map, each once
\* and in the same order, each with the hash of the bytes returned for it
C10_ManifestMatchesFiles ==
    (Finished /\ Last.ok) =>
        LET files == Last.value.files
            entries == Last.value.manifest.files
        IN /\ Keys(entries) = Keys(files)
           /\ \A i, j \in DOMAIN files : files[i].path = files[j].path => i = j
           /\ \A i \in DOMAIN files : entries[i].sha256 = computeSha256(files[i].content)

C10_Witness ==
    /\ Finished
    /\ Last.ok
    /\ Len(Last.value.files) >= 2
    /\ \E i \in DOMAIN addLog :
          /\ getFile(heap[ctxRef], addLog[i].path) = addLog[i].content
          /\ getFile(Last.value.files, addLog[i].path) # addLog[i].content

RECURSIVE LineEndingsToLF(_)
\* a content with each CR LF pair and each lone CR replaced by one LF and
\* every other byte kept
LineEndingsToLF(bytes) ==
    IF bytes = <<>> THEN <<>>
    ELSE IF Head(bytes) = "CR"
         THEN <<"LF">> \o LineEndingsToLF(IF Len(bytes) >= 2 /\ bytes[2] = "LF"
                                          THEN SubSeq(bytes, 3, Len(bytes)) ELSE Tail(bytes))
    ELSE <<Head(bytes)>> \o LineEndingsToLF(Tail(bytes))

\* C11: a content render returns holds no CR; it is the content the context
\* held for the path with each CR LF pair and each lone CR replaced by one LF
\* and everything else kept, so a content without CR comes back unchanged;
\* normalizing it again changes nothing
C11_LineEndingsNormalized ==
    (Finished /\ Last.ok) =>
        \A i \in DOMAIN Last.value.files :
            LET returned == Last.value.files[i].content
                supplied == getFile(heap[ctxRef], Last.value.files[i].path)
            IN /\ "CR" \notin Range(returned)
               /\ returned = LineEndingsToLF(supplied)
               /\ "CR" \notin Range(supplied) => returned = supplied
               /\ normalizeLineEndings(returned) = returned

\* C12: two configs with the same fields and values have the same config
\* hash, whatever the order their keys were inserted in, and two configs that
\* differ in the value or the presence of a field have different hashes
C12_ConfigHashCanonical ==
    pc = "hashing" =>
        \A i, j \in DOMAIN oIn :
            (Range(oIn[i]) = Range(oIn[j])) <=> (oOut.value[i] = oOut.value[j])

C12_Witness ==
    /\ pc = "hashing"
    /\ Len(oIn) = 2
    /\ oIn[1] # oIn[2]
    /\ Range(oIn[1]) = Range(oIn[2])
    /\ \E i \in DOMAIN oIn[1] : oIn[1][i][1] = "backend"
    /\ oOut.value[1] = oOut.value[2]

\* the pairs <<p, d>> of ids with p depending on d, directly or transitively,
\* by the declarations of the registered plugins
DependsOn == Closure(DeclaredEdges(Range(registry)), DeclaredEdges(Range(registry)))

\* the ids some registered plugin declares as a dependency
DependedUpon == {e[2] : e \in DeclaredEdges(Range(registry))}

\* C13: in a list resolvePluginOrder returns, two plugins of which neither
\* depends on the other, directly or transitively, are in ascending id order
C13_IndependentAscending ==
    (pc = "resolved" /\ oOut.ok) =>
        \A i, j \in DOMAIN oOut.value :
            (/\ i < j
             /\ <<oOut.value[i].id, oOut.value[j].id>> \notin DependsOn
             /\ <<oOut.value[j].id, oOut.value[i].id>> \notin DependsOn)
                => localeCompare(oOut.value[i].id, oOut.value[j].id) < 0

\* C13 as amended: in a list resolvePluginOrder returns, two plugins that no
\* registered plugin declares as a dependency are in ascending id order, the
\* order of localeCompare
C13_RootsAscending ==
    (pc = "resolved" /\ oOut.ok) =>
        \A i, j \in DOMAIN oOut.value :
            (/\ i < j
             /\ oOut.value[i].id \notin DependedUpon
             /\ oOut.value[j].id \notin DependedUpon)
                => localeCompare(oOut.value[i].id, oOut.value[j].id) < 0

C13_Witness ==
    /\ pc = "resolved"
    /\ oOut.ok
    /\ Len(oOut.value) = 3
    /\ Len(oIn) = 3
    /\ oIn[1].id = <<"Z">>
    /\ oOut.value[3].id = <<"Z">>
    /\ Cardinality({i \in DOMAIN oOut.value : oOut.value[i].id \notin DependedUpon}) = 2
    /\ DependedUpon # {}

\* the lists with the elements of s, each once, in every order
Perms(s) ==
    {[i \in DOMAIN s |-> s[f[i]]] :
        f \in {g \in [DOMAIN s -> DOMAIN s] : \A i, j \in DOMAIN s : i # j => g[i] # g[j]}}

\* the dependencies the plugin object with an id lists
ListedDeps(id) ==
    LET objects == {p \in Range(oIn) \cup Range(registry) : p.id = id}
    IN IF objects = {} THEN <<>> ELSE (CHOOSE p \in objects : TRUE).dependencies

\* every way for the plugins to list the same dependencies in another order
Relistings ==
    {r \in [PluginIds -> UNION {Perms(ListedDeps(id)) : id \in PluginIds}] :
        \A id \in PluginIds : r[id] \in Perms(ListedDeps(id))}

Relisted(plugins, r) == [i \in DOMAIN plugins |-> [plugins[i] EXCEPT !.dependencies = r[plugins[i].id]]]

\* what a call of resolvePluginOrder comes to: the ids returned, or the
\* kind of error with the plugins and ids it is about
OrderOutcome(o) ==
    IF o.ok THEN [ok |-> TRUE, ids |-> Ids(o.value), about |-> {}]
    ELSE [ok |-> FALSE, ids |-> <<>>,
          about |-> CASE o.error.type = "Missing plugin dependencies" ->
                             {<<"missing", m.plugin, m.dep>> : m \in Range(o.error.missing)}
                      [] o.error.type = "Plugin not found in registry" ->
                             {<<"not found", o.error.id, o.error.id>>}
                      [] OTHER -> {<<"cycle", <<>>, <<>>>>}]

C15_CyclesDetectedExactly ==
    pc = "detected" =>
        ((oOut.value # <<>>) <=> HasCycle(DeclaredEdges(Range(oIn))))

C15_Witness ==
    /\ pc = "detected"
    /\ Len(oIn) = 3
    /\ oOut.value # <<>>
    /\ oIn[1].dependencies = <<>>
    /\ \E p \in Range(oIn) : p.id \in Range(p.dependencies)

\* the k-th register call is the first one for its plugin's id
FirstOfItsId(k) == \A j \in 1..(k - 1) : oIn[j].id # oIn[k].id

\* the plugins passed to register by the first call for each id, in call order
RegisteredFirst ==
    LET firsts == {k \in DOMAIN oIn : FirstOfItsId(k)}
        kth(n) == CHOOSE k \in firsts : Cardinality({j \in firsts : j < k}) = n - 1
    IN [n \in 1..Cardinality(firsts) |-> oIn[kth(n)]]

\* C16: after any sequence of register calls no two registered plugins share
\* an id; a call with an id already present throws and changes nothing;
\* get(id) returns the plugin registered first under the id and getAll
\* returns exactly the plugins registered by the calls that succeeded
C16_RegistryIdsUnique ==
    pc = "registering" =>
        /\ \A i, j \in DOMAIN RegistryGetAll(registry) :
              i # j => RegistryGetAll(registry)[i].id # RegistryGetAll(registry)[j].id
        /\ RegistryGetAll(registry) = RegisteredFirst
        /\ \A k \in DOMAIN oIn :
              /\ RegistryHas(registry, oIn[k].id)
              /\ FirstOfItsId(k) => RegistryGet(registry, oIn[k].id) = oIn[k]
        /\ \A id \in PluginIds : RegistryHas(registry, id) => id \in Range(Ids(oIn))
        /\ oIn # <<>> => (oOut.ok <=> FirstOfItsId(Len(oIn)))

C16_Witness ==
    /\ pc = "registering"
    /\ Len(oIn) = 3
    /\ oIn[2].id = oIn[1].id
    /\ oIn[2] # oIn[1]
    /\ oIn[3].id # oIn[1].id
    /\ Len(registry) = 2
    /\ oOut.ok

\* C17: groupPluginsByPhase returns a map with exactly the keys pre, render,
\* post and ci; every plugin of the list is in exactly one bucket, the one of
\* its declared phase, or render when it declares none; every bucket is in
\* ascending id order (the order of localeCompare) whatever the input order
C17_PhaseBuckets ==
    pc = "grouped" =>
        LET grouped == oOut.value
        IN /\ DOMAIN grouped = {"pre", "render", "post", "ci"}
           /\ \A phase \in DOMAIN grouped :
                 /\ \A p \in Range(oIn) :
                       p \in Range(grouped[phase]) <=>
                           phase = (IF p.phase = "none" THEN "render" ELSE p.phase)
                 /\ Range(grouped[phase]) \subseteq Range(oIn)
                 /\ \A i, j \in DOMAIN grouped[phase] :
                       i < j => localeCompare(grouped[phase][i].id, grouped[phase][j].id) < 0

C17_Witness ==
    /\ pc = "grouped"
    /\ Ids(oIn) = <<<<"Z">>, <<"b">>, <<"a">>>>
    /\ oIn[1].phase = "none"
    /\ oIn[2].phase = "ci"
    /\ oIn[3].phase = "render"
    /\ Ids(oOut.value["render"]) = <<<<"a">>, <<"Z">>>>
    /\ oOut.value["pre"] = <<>>

\* the addFile calls made on a path
AddsOf(path) == {k \in DOMAIN addLog : addLog[k].path = path}

\* the path was seeded through existingFiles
Seeded(path) == hasExisting /\ HasKey(heap.existing, path)

\* C18: on a context, hasFile(p) is true exactly for the paths seeded through
\* existingFiles or passed to addFile; getFile(p) returns the bytes of the
\* most recent addFile(p, ...), the seeded bytes when p was seeded and never
\* added, and absent for every other path, so an addFile changes no other path
C18_ContextFiles ==
    pc = "context" =>
        \A path \in ContextPaths :
            /\ hasFile(heap[ctxRef], path) <=> (Seeded(path) \/ AddsOf(path) # {})
            /\ AddsOf(path) # {} =>
                  getFile(heap[ctxRef], path) =
                      addLog[CHOOSE k \in AddsOf(path) : \A j \in AddsOf(path) : j <= k].content
            /\ (AddsOf(path) = {} /\ Seeded(path)) =>
                  getFile(heap[ctxRef], path) =
                      heap.existing[CHOOSE i \in DOMAIN heap.existing : heap.existing[i].path = path].content
            /\ (AddsOf(path) = {} /\ ~Seeded(path)) => getFile(heap[ctxRef], path) = "undefined"

\* the strictness preset of the config of the state
Preset == ConfigValue(config, "strictnessPreset")

\* the required checks of the policy resolved for the config of the state,
\* and those resolvePolicy gives for that config with another preset
ChecksFor(preset) ==
    IF preset = Preset THEN Range(policy.requiredChecks)
    ELSE Range(resolvePolicy([i \in DOMAIN config |->
                                 IF config[i][1] = "strictnessPreset" THEN <<config[i][1], preset>>
                                 ELSE config[i]]).requiredChecks)

\* C19: the required checks grow strictly from startup to pro to enterprise;
\* the version posture is latest-major, pinned-minor, pinned-exact; boundary
\* validation is required for pro and enterprise only; codeowners and audit
\* trail are required for enterprise only
C19_PresetsTighten ==
    pc = "policyResolved" =>
        /\ ChecksFor("startup") \subseteq ChecksFor("pro") /\ ChecksFor("startup") # ChecksFor("pro")
        /\ ChecksFor("pro") \subseteq ChecksFor("enterprise") /\ ChecksFor("pro") # ChecksFor("enterprise")
        /\ policy.versionPosture = CASE Preset = "startup" -> "latest-major"
                                      [] Preset = "pro" -> "pinned-minor"
                                      [] Preset = "enterprise" -> "pinned-exact"
        /\ policy.runtimeSafety.boundaryValidationRequired = (Preset \in {"pro", "enterprise"})
        /\ policy.process.codeownersRequired = (Preset = "enterprise")
        /\ policy.process.auditTrailRequired = (Preset = "enterprise")

C19_Witness ==
    /\ pc = "policyResolved"
    /\ Preset = "pro"
    /\ Len(policy.requiredChecks) = 4
    /\ ConfigValue(config, "projectType") = "expo-eas"

\* C20: in the policy resolvePolicy returns, a field the preset does not set,
\* at top level or inside runtimeSafety or process, has the base policy's
\* value, and a field the preset sets has the preset's value
C20_UnsetFieldsKeepBase ==
    pc = "policyResolved" =>
        LET preset == PRESET_POLICIES[Preset]
            groups == {"runtimeSafety", "process"}
        IN /\ DOMAIN policy = DOMAIN BASE_POLICY
           /\ \A k \in DOMAIN BASE_POLICY \ groups :
                 policy[k] = IF k \in DOMAIN preset THEN preset[k] ELSE BASE_POLICY[k]
           /\ \A g \in groups :
                 /\ DOMAIN policy[g] = DOMAIN BASE_POLICY[g]
                 /\ \A f \in DOMAIN BASE_POLICY[g] :
                       policy[g][f] = IF g \in DOMAIN preset /\ f \in DOMAIN preset[g]
                                      THEN preset[g][f] ELSE BASE_POLICY[g][f]

C20_Witness ==
    /\ pc = "policyResolved"
    /\ Preset = "pro"
    /\ "process" \notin DOMAIN PRESET_POLICIES[Preset]
    /\ policy.process = BASE_POLICY.process
    /\ policy.version = BASE_POLICY.version
    /\ policy.runtimeSafety # BASE_POLICY.runtimeSafety

\* C21: resolvePluginOrder throws, and returns no order, when the list it is
\* passed holds a plugin whose id is not registered
C21_UnregisteredInputRejected ==
    (pc = "resolved" /\ \E p \in Range(oIn) : ~RegistryHas(registry, p.id)) => ~oOut.ok

\* C22: detectCycles(buildDependencyGraph(plugins)) returns the same cycle
\* descriptions in the same order for every order of the list and every order
\* in which the plugins list their dependencies
C22_CycleTextIndependentOfInput ==
    pc = "detected" =>
        \A q \in Perms(oIn), r \in Relistings :
            detectCycles(buildDependencyGraph(Relisted(q, r))) = oOut.value

\* C23: during render the validate hook of every applied plugin that defines
\* one is called, and a result with valid = false makes render fail: a render
\* that returns has applied no plugin whose validate hook reports invalid
C23_InvalidPluginBlocksRender ==
    (Finished /\ Last.ok) => \A i \in DOMAIN applied : Applied(i).validate # "invalid"

AddedPaths == {addLog[k].path : k \in DOMAIN addLog}

\* every apply call of the render returned: the phase loops ran to their end
PhasesCompleted == Finished /\ pos > Len(schedule)

\* p comes before q in phase order, then ascending id within a phase
ExecutesBefore(p, q) ==
    \/ DeclaredPhaseRank(p) < DeclaredPhaseRank(q)
    \/ DeclaredPhaseRank(p) = DeclaredPhaseRank(q) /\ localeCompare(p.id, q.id) < 0

\* the writer of the path that executes last
LastWriter(path) ==
    CHOOSE w \in WritersOf(path) :
        \A v \in WritersOf(path) \ {w} : ExecutesBefore(RegistryGet(registry, v), RegistryGet(registry, w))

\* the content the plugin passed to addFile for the path
ContentPassed(id, path) ==
    addLog[CHOOSE k \in DOMAIN addLog : addLog[k].plugin = id /\ addLog[k].path = path].content

\* C26: in a render whose apply calls all return, for a path of which every
\* writer declares conflictPolicy 'last-wins', render succeeds and returns for
\* the path the content its last writer (in phase order, then ascending id
\* within a phase) passed to addFile, after line-ending normalization
C26_LastWriterWins ==
    PhasesCompleted =>
        \A path \in AddedPaths :
            (\A w \in WritersOf(path) : DeclaredPolicy(w) = "last-wins")
                => /\ Last.ok
                   /\ HasKey(Last.value.files, path)
                   /\ Lookup(Last.value.files, path)
                         = normalizeLineEndings(ContentPassed(LastWriter(path), path))

\* how often the id occurs in a list of ids
Occurrences(ids, id) == Cardinality({i \in DOMAIN ids : ids[i] = id})

\* C27: a list resolvePluginOrder returns holds every registered plugin of
\* the input list exactly once and no plugin id twice, and a render that
\* returns has applied every applicable plugin exactly once
C27_EachPluginOnce ==
    /\ (pc = "resolved" /\ oOut.ok) =>
          /\ \A p \in Range(oIn) :
                RegistryHas(registry, p.id) => Occurrences(Ids(oOut.value), p.id) = 1
          /\ \A i, j \in DOMAIN oOut.value : oOut.value[i].id = oOut.value[j].id => i = j
    /\ (Finished /\ Last.ok) =>
          \A p \in Applicable : Occurrences(applied, p.id) = 1

C27_Witness ==
    /\ pc = "resolved"
    /\ oOut.ok
    /\ Ids(oIn) = <<<<"b">>, <<"Z">>, <<"a">>>>
    /\ Ids(registry) = <<<<"Z">>, <<"a">>>>
    /\ ListedDeps(<<"a">>) = <<<<"Z">>>>
    /\ Ids(oOut.value) = <<<<"Z">>, <<"a">>>>

\* the plugins change the context only through addFile
OnlyAddFile == \A p \in Range(registry) : p.behaviour.kind # "replace"

\* the plugin that made the first addFile call on the path
FirstAdder(path) == addLog[CHOOSE k \in AddsOf(path) : \A j \in AddsOf(path) : k <= j].plugin

SeededPaths == IF hasExisting THEN Range(Keys(heap.existing)) ELSE {}

\* C29: for every render that returns, the paths of the returned file map
\* are the paths seeded through existingFiles together with the paths passed
\* to addFile; a seeded path no plugin wrote is returned, and listed in the
\* manifest, with its seeded content after normalization; no step changes the
\* caller's existingFiles map
C29_ReturnedPaths ==
    /\ []((Finished /\ Last.ok) =>
             /\ Range(Keys(Last.value.files)) = SeededPaths \cup AddedPaths
             /\ \A path \in SeededPaths \ AddedPaths :
                   /\ Lookup(Last.value.files, path) = normalizeLineEndings(Lookup(heap.existing, path))
                   /\ \E i \in DOMAIN Last.value.manifest.files :
                         /\ Last.value.manifest.files[i].path = path
                         /\ Last.value.manifest.files[i].sha256
                               = computeSha256(normalizeLineEndings(Lookup(heap.existing, path))))
    /\ [][heap'.existing = heap.existing]_vars

\* a step of apply keeps every file the disk holds, with its content
KeepsExistingFiles == \A f \in cli.disk.files : f \in cli'.disk.files

\* a step over a manifest entry either finds the target path on the disk,
\* records the entry as a conflict and leaves the disk as it is, or finds it
\* absent and copies the pack file there (or throws and adds no file)
EntryStep ==
    (cli.status = "running" /\ cli.i <= Len(cli.manifest)) =>
        LET filePath == cli.manifest[cli.i]
            targetPath == TargetPath(filePath)
            existed == IsFile(cli.disk, targetPath) \/ IsDirectory(cli.disk, targetPath)
        IN \/ /\ cli'.status = "failed"
              /\ cli'.disk.files = cli.disk.files
              /\ existed => ~validateFilePath(filePath).ok
           \/ /\ existed
              /\ cli'.status = "running"
              /\ cli'.disk = cli.disk
              /\ cli'.conflicts = Append(cli.conflicts, filePath)
              /\ cli'.added = cli.added
           \/ /\ ~existed
              /\ cli'.status = "running"
              /\ cli'.disk.files = cli.disk.files
                                    \cup {[path |-> targetPath,
                                           content |-> fsReadFile(cli.disk, SourcePath(filePath)).value]}
              /\ cli'.conflicts = cli.conflicts
              /\ cli'.added = cli.added + 1

\* C24: the CLI apply command never changes or replaces a file that already
\* exists: for every manifest path it copies the pack file only when the
\* target path does not exist, otherwise it records the path as a conflict
\* and skips it; when it finishes, the number of files added plus the number
\* of conflicts is the number of manifest entries
C24_ApplyAdditiveOnly ==
    /\ [][KeepsExistingFiles /\ EntryStep]_vars
    /\ [](cli.status = "done" => cli.added + Len(cli.conflicts) = Len(cli.manifest))

C24_Witness ==
    /\ cli.status = "done"
    /\ cli.manifest = <<<<"d", "a">>, <<"a">>, <<".", "a">>>>
    /\ cli.added = 1
    /\ cli.conflicts = <<<<"a">>, <<".", "a">>>>
    /\ [path |-> <<"/", "t", "a">>, content |-> "old"] \in cli.disk.files
    /\ [path |-> <<"/", "t", "d", "a">>, content |-> "pack"] \in cli.disk.files

\* C30: for every successful render, manifest.policyVersion is the version
\* field of the policy that was passed to render
C30_ManifestPolicyVersion ==
    (Finished /\ Last.ok) => Last.value.manifest.policyVersion = policy.version

====
